---------------------------- MODULE Spec2Model ----------------------------
(***************************************************************************)
(* Model of callback.hpp: the Callback<R, ArgTs...> handle, its two        *)
(* InternalCallable variants (FunctionCaller, MethodCaller<T>) placed in   *)
(* the inline _buffer, invocation, isCallbackSet and pointToSame.          *)
(*                                                                         *)
(* Two Callback objects ("a" and "b") are constructed, each by one of the  *)
(* three constructors, and then used through call / operator(),            *)
(* isCallbackSet, pointToSame / operator== (typed and CallbackCompare      *)
(* overloads) and the implicitly declared copy assignment.                 *)
(***************************************************************************)
EXTENDS Integers, Sequences, FiniteSets, TLC

--------------------------------------------------------------------------
(* Bounds of the model *)

\* call arguments are drawn from 0..MaxArg
MaxArg == 1

Args == 0..MaxArg

--------------------------------------------------------------------------
(* The world outside the header: signatures, functions, objects, methods *)

\* the two Callback objects of the model
Handles == {"a", "b"}

\* nullptr, and the filler of fields a variant does not have
Null == "null"

\* template instantiations Callback<R, ArgTs...>: Callback<int, int> and
\* Callback<void, int>
Sigs == {"int(int)", "void(int)"}

\* std::is_same<RN, void> (callback.hpp:183, 193)
IsVoid(sig) == sig = "void(int)"

\* free functions R (*)(ArgTs...) that exist in the program, by signature
FuncsOf(sig) ==
    IF sig = "int(int)" THEN {"inc", "dbl"} ELSE {"log"}

\* what the functions return: a one-element sequence, or <<>> for void
FuncBody(func, x) ==
    CASE func = "inc" -> <<x + 1>>
      [] func = "dbl" -> <<2 * x + 2>>
      [] OTHER        -> <<>>

\* object types T
Types == {"T1", "T2"}

\* objects (addresses) of each type
ObjsOf(T) == IF T = "T1" THEN {"o1", "o2"} ELSE {"o3"}

\* a data member of each object, read by its methods
ObjField(obj) ==
    CASE obj = "o1" -> 10
      [] obj = "o2" -> 20
      [] OTHER      -> 30

\* member functions R (T::*)(ArgTs...) of each type, by signature
MethodsOf(T, sig) ==
    CASE T = "T1" /\ sig = "int(int)"  -> {"T1::get", "T1::neg"}
      [] T = "T1" /\ sig = "void(int)" -> {"T1::put"}
      [] T = "T2" /\ sig = "int(int)"  -> {"T2::get"}
      [] OTHER                         -> {}

\* what the methods return when called on obj with x
MethodBody(method, obj, x) ==
    CASE method = "T1::get" -> <<ObjField(obj) + x>>
      [] method = "T1::neg" -> <<ObjField(obj) - x>>
      [] method = "T2::get" -> <<2 * ObjField(obj) + x>>
      [] OTHER              -> <<>>

--------------------------------------------------------------------------
(* The content of _buffer *)

\* uint8_t _buffer[CALLBACK_INTERNAL_BUFFER_SIZE]{} : all zero, no object
ZeroBuffer ==
    [kind |-> "none", sig |-> Null, T |-> Null, obj |-> Null, fn |-> Null]

\* Callback<R, ArgTs...>::FunctionCaller(func): _func(func)
FunctionCaller(sig, func) ==
    [kind |-> "FunctionCaller", sig |-> sig, T |-> Null, obj |-> Null,
     fn |-> func]

\* Callback<R, ArgTs...>::MethodCaller<T>(obj, method): _obj(obj),
\* _method(method)
MethodCaller(sig, T, obj, method) ==
    [kind |-> "MethodCaller", sig |-> sig, T |-> T, obj |-> obj, fn |-> method]

\* typeid(*ptr) of an InternalCallable: FunctionCaller or MethodCaller<T> of
\* one instantiation Callback<R, ArgTs...>
TypeIdCallable(e) == <<e.sig, e.kind, e.T>>

\* does the buffer hold a placed InternalCallable image?
Placed(buf) == buf.kind # "none"

--------------------------------------------------------------------------
(* Callback objects *)

\* a Callback whose constructor has not run yet
NoCallback ==
    [live |-> FALSE, sig |-> Null, _callbackSet |-> FALSE, _buffer |-> ZeroBuffer]

\* constexpr Callback() : _callbackSet(false) {}
CtorDefault(sig) ==
    [live |-> TRUE, sig |-> sig, _callbackSet |-> FALSE, _buffer |-> ZeroBuffer]

\* Callback(R (*const func)(ArgTs...)) without the reset of _callbackSet
CtorFuncKeepsFlag(sig, func) ==
    IF func = Null
    THEN [live |-> TRUE, sig |-> sig, _callbackSet |-> TRUE, _buffer |-> ZeroBuffer]
    ELSE [live |-> TRUE, sig |-> sig, _callbackSet |-> TRUE,
          _buffer |-> FunctionCaller(sig, func)]

\* Callback(R (*const func)(ArgTs...))
CtorFunc(sig, func) ==
    IF func = Null
    THEN [live |-> TRUE, sig |-> sig, _callbackSet |-> FALSE, _buffer |-> ZeroBuffer]
    ELSE [live |-> TRUE, sig |-> sig, _callbackSet |-> TRUE,
          _buffer |-> FunctionCaller(sig, func)]

\* Callback(T *obj, R (T::*method)(ArgTs...)) that tests obj alone for nullptr
CtorMethodObjOnly(sig, T, obj, method) ==
    IF obj = Null
    THEN [live |-> TRUE, sig |-> sig, _callbackSet |-> FALSE, _buffer |-> ZeroBuffer]
    ELSE [live |-> TRUE, sig |-> sig, _callbackSet |-> TRUE,
          _buffer |-> MethodCaller(sig, T, obj, method)]

\* template <typename T> Callback(T *const obj, R (T::*const method)(ArgTs...))
CtorMethod(sig, T, obj, method) ==
    IF obj = Null \/ method = Null
    THEN [live |-> TRUE, sig |-> sig, _callbackSet |-> FALSE, _buffer |-> ZeroBuffer]
    ELSE [live |-> TRUE, sig |-> sig, _callbackSet |-> TRUE,
          _buffer |-> MethodCaller(sig, T, obj, method)]

--------------------------------------------------------------------------
(* Invocation.  An outcome is what one call did: the value returned        *)
(* (<<v>>, or <<>> for void), the functions and methods it invoked, in     *)
(* order, whether it dispatched through a buffer that holds no object, and *)
(* whether it cast _buffer to InternalCallable.                            *)

Invocation(fn, obj, x) == [fn |-> fn, obj |-> obj, arg |-> x]

Outcome(ret, invoked, fault) ==
    [ret |-> ret, invoked |-> invoked, fault |-> fault, deref |-> FALSE]

\* FunctionCaller::call that calls the function and drops its argument
FunctionCallerCallNoArg(e, x) ==
    {Outcome(FuncBody(e.fn, 0), <<Invocation(e.fn, Null, 0)>>, FALSE)}

\* FunctionCaller::call: return (*_func)(args...)
FunctionCaller_call(e, x) ==
    {Outcome(FuncBody(e.fn, x), <<Invocation(e.fn, Null, x)>>, FALSE)}

\* MethodCaller::call that calls the method on the first object of its type
MethodCallerCallWrongObj(e, x) ==
    LET o == CHOOSE p \in ObjsOf(e.T) : TRUE
    IN  {Outcome(MethodBody(e.fn, o, x), <<Invocation(e.fn, o, x)>>, FALSE)}

\* MethodCaller<T>::call: return (*_obj.*_method)(args...)
MethodCaller_call(e, x) ==
    {Outcome(MethodBody(e.fn, e.obj, x), <<Invocation(e.fn, e.obj, x)>>, FALSE)}

\* the values a read through a buffer that holds no object may produce
WildRets(sig) == IF IsVoid(sig) THEN {<<>>} ELSE {<<v>> : v \in {0, 1}}

\* ((InternalCallable *)_buffer)->call(args...): the virtual call.  A zeroed
\* buffer has no vtable pointer: the call is undefined, any outcome
InternalCallable_call(sig, buf, x) ==
    LET outs == CASE buf.kind = "FunctionCaller" -> FunctionCaller_call(buf, x)
                  [] buf.kind = "MethodCaller"   -> MethodCaller_call(buf, x)
                  [] OTHER -> {Outcome(r, <<>>, TRUE) : r \in WildRets(sig)}
    IN  {[o EXCEPT !.deref = TRUE] : o \in outs}

\* _call that dispatches without testing _callbackSet
CallUnguarded(cb, x) == InternalCallable_call(cb.sig, cb._buffer, x)

\* _call<RN, ArgTsN...>: both overloads (RN non-void returns (RN)0 when unset,
\* RN void returns nothing)
Callback_call(cb, x) ==
    IF cb._callbackSet
    THEN InternalCallable_call(cb.sig, cb._buffer, x)
    ELSE IF IsVoid(cb.sig)
         THEN {Outcome(<<>>, <<>>, FALSE)}
         ELSE {Outcome(<<0>>, <<>>, FALSE)}

\* R call(ArgTs... args) const
call(cb, x) == Callback_call(cb, x)

\* inline R operator()(ArgTs... args) const { return call(args...); }
OperatorCall(cb, x) == call(cb, x)

\* inline bool isCallbackSet() const
isCallbackSet(cb) == cb._callbackSet

--------------------------------------------------------------------------
(* Comparison.  A compare outcome is the value returned, the tryCompare    *)
(* calls made (receiver and argument), the sides whose _buffer was cast to *)
(* InternalCallable, and whether a buffer holding no object was read.      *)

TryOutcome(ret, fault) == [ret |-> ret, fault |-> fault]

CmpOutcome(ret, tried, derefs, fault) ==
    [ret |-> ret, tried |-> tried, derefs |-> derefs, fault |-> fault]


\* FunctionCaller::tryCompare(const InternalCallable *otherPtr).  otherPtr is
\* the address of a _buffer, never nullptr; typeid(*otherPtr) of a zeroed
\* buffer is undefined
FunctionCaller_tryCompare(this, other) ==
    IF ~Placed(other)
    THEN {TryOutcome(r, TRUE) : r \in BOOLEAN}
    ELSE IF TypeIdCallable(other) = TypeIdCallable(this)
         THEN IF other.fn = this.fn
              THEN {TryOutcome(TRUE, FALSE)}
              ELSE {TryOutcome(FALSE, FALSE)}
         ELSE {TryOutcome(FALSE, FALSE)}

\* MethodCaller::tryCompare that compares _obj alone
MethodCallerTryCompareObjOnly(this, other) ==
    IF ~Placed(other)
    THEN {TryOutcome(r, TRUE) : r \in BOOLEAN}
    ELSE IF TypeIdCallable(other) = TypeIdCallable(this)
         THEN {TryOutcome(other.obj = this.obj, FALSE)}
         ELSE {TryOutcome(FALSE, FALSE)}

\* MethodCaller<T>::tryCompare(const InternalCallable *otherCallable)
MethodCaller_tryCompare(this, other) ==
    IF ~Placed(other)
    THEN {TryOutcome(r, TRUE) : r \in BOOLEAN}
    ELSE IF TypeIdCallable(other) = TypeIdCallable(this)
         THEN IF other.obj = this.obj
              THEN IF other.fn = this.fn
                   THEN {TryOutcome(TRUE, FALSE)}
                   ELSE {TryOutcome(FALSE, FALSE)}
              ELSE {TryOutcome(FALSE, FALSE)}
         ELSE {TryOutcome(FALSE, FALSE)}

\* ((const InternalCallable *)_buffer)->tryCompare(...): the virtual call
InternalCallable_tryCompare(this, other) ==
    CASE this.kind = "FunctionCaller" -> FunctionCaller_tryCompare(this, other)
      [] this.kind = "MethodCaller"   -> MethodCaller_tryCompare(this, other)
      [] OTHER -> {TryOutcome(r, TRUE) : r \in BOOLEAN}


\* bool pointToSame(const Callback<R, ArgTs...> &other) const
pointToSame(this, other) ==
    IF ~this._callbackSet
    THEN IF ~other._callbackSet
         THEN {CmpOutcome(TRUE, <<>>, {}, FALSE)}
         ELSE {CmpOutcome(FALSE, <<>>, {}, FALSE)}
    ELSE IF other._callbackSet
         THEN {CmpOutcome(r.ret,
                          <<[this |-> this._buffer, other |-> other._buffer]>>,
                          {"this", "other"}, r.fault) :
                  r \in InternalCallable_tryCompare(this._buffer, other._buffer)}
         ELSE {CmpOutcome(FALSE, <<>>, {}, FALSE)}

\* typeid(x) of a Callback seen as CallbackCompare: its instantiation
TypeIdCallback(cb) == cb.sig

\* pointToSame(const CallbackCompare &) that casts without the typeid test
PointToSameOpaqueNoTypeid(this, otherCallable) ==
    pointToSame(this, otherCallable)

\* bool pointToSame(const CallbackCompare &otherCallable) const override
pointToSameOpaque(this, otherCallable) ==
    IF TypeIdCallback(otherCallable) = TypeIdCallback(this)
    THEN pointToSame(this, otherCallable)
    ELSE {CmpOutcome(FALSE, <<>>, {}, FALSE)}

\* inline bool operator==(const Callback<R, ArgTs...> &other) const
OperatorEq(this, other) == pointToSame(this, other)

\* inline bool operator==(const CallbackCompare &otherCallable) const
OperatorEqOpaque(this, otherCallable) == pointToSameOpaque(this, otherCallable)

--------------------------------------------------------------------------
(* State *)

VARIABLES
    handles,   \* the Callback objects: live, sig, _callbackSet, _buffer
    built,     \* each Callback as its own constructor left it (cb), with the
               \* constructor (ctor) and its arguments (T, obj, fn)
    last       \* the operation executed last, its inputs and what it did

vars == <<handles, built, last>>

\* the record of an operation, before its fields are filled in
NoOp ==
    [op |-> "none", h |-> Null, other |-> Null, sig |-> Null, T |-> Null,
     obj |-> Null, fn |-> Null, arg |-> 0, ret |-> <<>>, flag |-> FALSE,
     fault |-> FALSE, invoked |-> <<>>, tried |-> <<>>, derefs |-> {}]

Built(cb, ctor, T, obj, fn) ==
    [cb |-> cb, ctor |-> ctor, T |-> T, obj |-> obj, fn |-> fn]

Init ==
    /\ handles = [h \in Handles |-> NoCallback]
    /\ built = [h \in Handles |-> Built(NoCallback, "none", Null, Null, Null)]
    /\ last = NoOp

\* Callback<R, ArgTs...> h;
ConstructDefault(h) ==
    /\ ~handles[h].live
    /\ \E sig \in Sigs :
           LET cb == CtorDefault(sig)
           IN  /\ handles' = [handles EXCEPT ![h] = cb]
               /\ built' = [built EXCEPT
                               ![h] = Built(cb, "Callback()", Null, Null, Null)]
               /\ last' = [NoOp EXCEPT !.op = "Callback()", !.h = h, !.sig = sig,
                                        !.flag = isCallbackSet(cb)]

\* Callback<R, ArgTs...> h(func);  func may be nullptr
ConstructFunc(h) ==
    /\ ~handles[h].live
    /\ \E sig \in Sigs : \E func \in FuncsOf(sig) \cup {Null} :
           LET cb == CtorFunc(sig, func)
           IN  /\ handles' = [handles EXCEPT ![h] = cb]
               /\ built' = [built EXCEPT
                               ![h] = Built(cb, "Callback(func)", Null, Null, func)]
               /\ last' = [NoOp EXCEPT !.op = "Callback(func)", !.h = h,
                                        !.sig = sig, !.fn = func,
                                        !.flag = isCallbackSet(cb)]

\* Callback<R, ArgTs...> h(obj, method);  obj and method may be nullptr
ConstructMethod(h) ==
    /\ ~handles[h].live
    /\ \E sig \in Sigs : \E T \in Types :
           \E obj \in ObjsOf(T) \cup {Null} :
               \E method \in MethodsOf(T, sig) \cup {Null} :
                   LET cb == CtorMethod(sig, T, obj, method)
                   IN  /\ handles' = [handles EXCEPT ![h] = cb]
                       /\ built' = [built EXCEPT
                                       ![h] = Built(cb, "Callback(obj, method)",
                                                    T, obj, method)]
                       /\ last' = [NoOp EXCEPT !.op = "Callback(obj, method)",
                                                !.h = h, !.sig = sig, !.T = T,
                                                !.obj = obj, !.fn = method,
                                                !.flag = isCallbackSet(cb)]

\* h.call(x) that also clears the binding (a one-shot callback)
CallOneShot(h, x) ==
    /\ handles[h].live
    /\ \E o \in call(handles[h], x) :
           last' = [NoOp EXCEPT !.op = "call", !.h = h, !.sig = handles[h].sig,
                                !.arg = x, !.ret = o.ret, !.invoked = o.invoked,
                                !.fault = o.fault,
                                !.derefs = IF o.deref THEN {h} ELSE {}]
    /\ handles' = [handles EXCEPT ![h]._callbackSet = FALSE]
    /\ UNCHANGED built

\* h.call(x)
Call(h, x) ==
    /\ handles[h].live
    /\ \E o \in call(handles[h], x) :
           last' = [NoOp EXCEPT !.op = "call", !.h = h, !.sig = handles[h].sig,
                                !.arg = x, !.ret = o.ret, !.invoked = o.invoked,
                                !.fault = o.fault,
                                !.derefs = IF o.deref THEN {h} ELSE {}]
    /\ UNCHANGED <<handles, built>>

\* h(x)
CallOperator(h, x) ==
    /\ handles[h].live
    /\ \E o \in OperatorCall(handles[h], x) :
           last' = [NoOp EXCEPT !.op = "operator()", !.h = h,
                                !.sig = handles[h].sig,
                                !.arg = x, !.ret = o.ret, !.invoked = o.invoked,
                                !.fault = o.fault,
                                !.derefs = IF o.deref THEN {h} ELSE {}]
    /\ UNCHANGED <<handles, built>>

\* h.isCallbackSet()
IsCallbackSet(h) ==
    /\ handles[h].live
    /\ last' = [NoOp EXCEPT !.op = "isCallbackSet", !.h = h,
                            !.sig = handles[h].sig,
                            !.flag = isCallbackSet(handles[h])]
    /\ UNCHANGED <<handles, built>>

\* the Callback objects whose _buffer a comparison of h with g cast
DerefHandles(h, g, sides) ==
    (IF "this" \in sides THEN {h} ELSE {}) \cup
    (IF "other" \in sides THEN {g} ELSE {})

\* the record of a comparison of h with g that ended with outcome c
CmpRec(op, h, g, c) ==
    [NoOp EXCEPT !.op = op, !.h = h, !.other = g, !.sig = handles[h].sig,
                 !.flag = c.ret, !.tried = c.tried, !.fault = c.fault,
                 !.derefs = DerefHandles(h, g, c.derefs)]

\* h.pointToSame(g), g a Callback of h's own instantiation
PointToSame(h, g) ==
    /\ handles[h].live /\ handles[g].live
    /\ handles[h].sig = handles[g].sig
    /\ \E c \in pointToSame(handles[h], handles[g]) :
           last' = CmpRec("pointToSame", h, g, c)
    /\ UNCHANGED <<handles, built>>

\* h == g, g a Callback of h's own instantiation
Equals(h, g) ==
    /\ handles[h].live /\ handles[g].live
    /\ handles[h].sig = handles[g].sig
    /\ \E c \in OperatorEq(handles[h], handles[g]) :
           last' = CmpRec("operator==", h, g, c)
    /\ UNCHANGED <<handles, built>>

\* h.pointToSame((const CallbackCompare &) g), g of any instantiation
PointToSameOpaque(h, g) ==
    /\ handles[h].live /\ handles[g].live
    /\ \E c \in pointToSameOpaque(handles[h], handles[g]) :
           last' = CmpRec("pointToSame(CallbackCompare)", h, g, c)
    /\ UNCHANGED <<handles, built>>

\* h == (const CallbackCompare &) g, g of any instantiation
EqualsOpaque(h, g) ==
    /\ handles[h].live /\ handles[g].live
    /\ \E c \in OperatorEqOpaque(handles[h], handles[g]) :
           last' = CmpRec("operator==(CallbackCompare)", h, g, c)
    /\ UNCHANGED <<handles, built>>

\* h = g: the implicitly declared copy assignment of Callback<R, ArgTs...>
\* copies _callbackSet and the bytes of _buffer
Assign(h, g) ==
    /\ handles[h].live /\ handles[g].live
    /\ handles[h].sig = handles[g].sig
    /\ handles' = [handles EXCEPT ![h]._callbackSet = handles[g]._callbackSet,
                                  ![h]._buffer = handles[g]._buffer]
    /\ last' = [NoOp EXCEPT !.op = "operator=", !.h = h, !.other = g,
                            !.sig = handles[h].sig]
    /\ UNCHANGED built

Next ==
    \/ \E h \in Handles : ConstructDefault(h)
    \/ \E h \in Handles : ConstructFunc(h)
    \/ \E h \in Handles : ConstructMethod(h)
    \/ \E h \in Handles : \E x \in Args : Call(h, x)
    \/ \E h \in Handles : \E x \in Args : CallOperator(h, x)
    \/ \E h \in Handles : IsCallbackSet(h)
    \/ \E h \in Handles : \E g \in Handles : PointToSame(h, g)
    \/ \E h \in Handles : \E g \in Handles : Equals(h, g)
    \/ \E h \in Handles : \E g \in Handles : PointToSameOpaque(h, g)
    \/ \E h \in Handles : \E g \in Handles : EqualsOpaque(h, g)
    \/ \E h \in Handles : \E g \in Handles : Assign(h, g)

Spec == Init /\ [][Next]_vars

--------------------------------------------------------------------------
(* Vocabulary of the properties *)

CallOps == {"call", "operator()"}

TypedCmpOps == {"pointToSame", "operator=="}

OpaqueCmpOps == {"pointToSame(CallbackCompare)", "operator==(CallbackCompare)"}

UseOps == CallOps \cup {"isCallbackSet"} \cup TypedCmpOps \cup OpaqueCmpOps

\* h still holds what its own constructor chose (no assignment replaced it)
Untouched(h) == handles[h].live /\ handles[h] = built[h].cb

\* h was constructed from a non-null function address
BuiltFromFunc(h) == built[h].ctor = "Callback(func)" /\ built[h].fn # Null

\* h was constructed from a non-null object and a non-null method
BuiltFromMethod(h) ==
    /\ built[h].ctor = "Callback(obj, method)"
    /\ built[h].obj # Null
    /\ built[h].fn # Null

\* h was default-constructed, or constructed from a null address
BuiltNull(h) ==
    \/ built[h].ctor = "Callback()"
    \/ built[h].ctor = "Callback(func)" /\ built[h].fn = Null
    \/ built[h].ctor = "Callback(obj, method)"
         /\ (built[h].obj = Null \/ built[h].fn = Null)

\* the default value (R)0 of a signature's result; nothing for void
DefaultRet(sig) == IF IsVoid(sig) THEN <<>> ELSE <<0>>

\* x and y are both unbound, or bound to the same destination
SameDestination(x, y) ==
    \/ ~x._callbackSet /\ ~y._callbackSet
    \/ /\ x._callbackSet /\ y._callbackSet
       /\ x._buffer.kind = y._buffer.kind
       /\ x._buffer.fn = y._buffer.fn
       /\ x._buffer.kind = "MethodCaller" =>
              /\ x._buffer.T = y._buffer.T
              /\ x._buffer.obj = y._buffer.obj

--------------------------------------------------------------------------
(* Properties *)

\* C1: a Callback constructed from a non-null function address f reports
\* isCallbackSet() = true, and every call / operator() on it invokes f exactly
\* once, with the argument given, and returns f's result.
C1_FunctionBound ==
    \A h \in Handles :
        BuiltFromFunc(h) =>
            /\ isCallbackSet(built[h].cb)
            /\ (last.h = h /\ last.op = "Callback(func)") =>
                   last.flag /\ Untouched(h)
            /\ (last.h = h /\ last.op = "isCallbackSet" /\ Untouched(h)) =>
                   last.flag
            /\ (last.h = h /\ last.op \in CallOps /\ Untouched(h)) =>
                   /\ last.invoked = <<Invocation(built[h].fn, Null, last.arg)>>
                   /\ last.ret = FuncBody(built[h].fn, last.arg)
                   /\ ~last.fault

\* C1 happens: "inc" was called through a Callback built from it, with 1
C1_Witness ==
    /\ last.op = "call" /\ last.arg = 1
    /\ BuiltFromFunc(last.h) /\ Untouched(last.h)
    /\ built[last.h].fn = "inc"
    /\ last.ret = <<2>>

\* C2: a Callback constructed from a non-null object obj and a non-null
\* method m reports isCallbackSet() = true, and every call on it invokes m on
\* obj, once, with the argument given, and returns that invocation's result.
C2_MethodBound ==
    \A h \in Handles :
        BuiltFromMethod(h) =>
            /\ isCallbackSet(built[h].cb)
            /\ (last.h = h /\ last.op = "Callback(obj, method)") =>
                   last.flag /\ Untouched(h)
            /\ (last.h = h /\ last.op = "isCallbackSet" /\ Untouched(h)) =>
                   last.flag
            /\ (last.h = h /\ last.op \in CallOps /\ Untouched(h)) =>
                   /\ last.invoked =
                          <<Invocation(built[h].fn, built[h].obj, last.arg)>>
                   /\ last.ret = MethodBody(built[h].fn, built[h].obj, last.arg)
                   /\ ~last.fault

\* C2 happens: T1::get was called on o2 through a Callback built from them
C2_Witness ==
    /\ last.op = "call" /\ last.arg = 1
    /\ BuiltFromMethod(last.h) /\ Untouched(last.h)
    /\ built[last.h].obj = "o2" /\ built[last.h].fn = "T1::get"
    /\ last.ret = <<21>>

\* C3: default construction, construction from a null function address and
\* construction from an (object, method) pair with a null object or a null
\* method all yield a Callback with isCallbackSet() = false and nothing placed
\* in its buffer.
C3_NullConstructionUnbound ==
    \A h \in Handles :
        BuiltNull(h) =>
            /\ built[h].cb.live
            /\ ~isCallbackSet(built[h].cb)
            /\ ~Placed(built[h].cb._buffer)
            /\ (last.h = h /\ last.op = built[h].ctor) =>
                   ~last.flag /\ Untouched(h)

\* C3 happens: a Callback was constructed from object o1 and a null method
C3_Witness ==
    /\ last.op = "Callback(obj, method)"
    /\ last.obj = "o1" /\ last.fn = Null
    /\ ~handles[last.h]._callbackSet

\* C4: a call on an unbound Callback invokes nothing, dispatches through no
\* buffer, and returns (R)0 when R is not void (nothing when R is void).
C4_UnboundCallIsNoOp ==
    (last.op \in CallOps /\ ~handles[last.h]._callbackSet) =>
        /\ last.invoked = <<>>
        /\ ~last.fault
        /\ last.derefs = {}
        /\ last.ret = DefaultRet(last.sig)

\* C4 happens: an unbound Callback<int, int> was called with 1
C4_Witness ==
    /\ last.op = "call" /\ last.arg = 1
    /\ ~handles[last.h]._callbackSet
    /\ last.sig = "int(int)"
    /\ last.ret = <<0>>

\* C5: for two Callbacks of one signature, pointToSame / operator== is true
\* iff both are unbound or both are bound to the same destination (the same
\* function; or the same object type, object and method).
C5_TypedCompare ==
    last.op \in TypedCmpOps =>
        /\ last.flag <=> SameDestination(handles[last.h], handles[last.other])
        /\ ~last.fault

\* C5 happens: two distinct Callbacks bound to the same (object, method) pair
\* compared equal
C5_Witness ==
    /\ last.op = "pointToSame" /\ last.h # last.other
    /\ handles[last.h]._buffer.kind = "MethodCaller"
    /\ handles[last.h]._buffer = handles[last.other]._buffer
    /\ last.flag

\* C6: compared with a CallbackCompare of another signature, a Callback
\* answers false whatever both hold, and reads no buffer; compared with one
\* of its own signature it answers as the same-signature comparison does.
C6_OpaqueCompare ==
    last.op \in OpaqueCmpOps =>
        IF handles[last.h].sig # handles[last.other].sig
        THEN ~last.flag /\ last.tried = <<>> /\ last.derefs = {} /\ ~last.fault
        ELSE /\ last.flag <=>
                    SameDestination(handles[last.h], handles[last.other])
             /\ ~last.fault

\* C6 happens: two unbound Callbacks of different signatures compared unequal
C6_Witness ==
    /\ last.op = "pointToSame(CallbackCompare)"
    /\ handles[last.h].sig # handles[last.other].sig
    /\ ~handles[last.h]._callbackSet /\ ~handles[last.other]._callbackSet
    /\ ~last.flag

\* C7: invocations, bound-checks and comparisons leave every Callback's
\* isCallbackSet() value, stored addresses and the outcome of comparing the
\* pair as they were.
C7_UseKeepsBinding ==
    [][last'.op \in UseOps =>
         /\ handles' = handles
         /\ \A h \in Handles :
                isCallbackSet(handles'[h]) = isCallbackSet(handles[h])
         /\ \A h, g \in Handles :
                pointToSameOpaque(handles'[h], handles'[g]) =
                    pointToSameOpaque(handles[h], handles[g])]_vars

\* C7 happens: a bound Callback was invoked while the other one was live
C7_Witness ==
    /\ last.op = "call" /\ last.invoked # <<>>
    /\ \A h \in Handles : handles[h].live
    /\ \E h \in Handles : h # last.h /\ handles[h].sig = handles[last.h].sig

\* C8: in every reachable state a Callback's bound flag and stored
\* destination are the ones its own construction chose.
C8_BindingNeverReplaced ==
    \A h \in Handles : handles[h].live => handles[h] = built[h].cb

\* C9: tryCompare is only ever invoked on two InternalCallables of the same
\* concrete type (never FunctionCaller against MethodCaller, never
\* MethodCallers of different object types).
C9_TryCompareSameVariant ==
    \A i \in 1..Len(last.tried) :
        TypeIdCallable(last.tried[i].this) = TypeIdCallable(last.tried[i].other)

\* C10: isCallbackSet() is true iff the buffer holds a placed InternalCallable,
\* and call and pointToSame cast a buffer to InternalCallable only when it
\* holds one, never the buffer of a Callback that is as its default or null
\* construction left it.
C10_SetIffPlaced ==
    /\ \A h \in Handles :
           handles[h].live =>
               (isCallbackSet(handles[h]) <=> Placed(handles[h]._buffer))
    /\ \A h \in last.derefs :
           /\ Placed(handles[h]._buffer)
           /\ ~(BuiltNull(h) /\ Untouched(h))
    /\ ~last.fault

\* C10 happens: a bound Callback was compared with a null-constructed one
C10_Witness ==
    /\ last.op \in TypedCmpOps
    /\ handles[last.h]._callbackSet
    /\ BuiltNull(last.other) /\ Untouched(last.other)
    /\ last.derefs = {}
    /\ ~last.flag

==========================================================================
